---------------------------- MODULE Spec2Model ----------------------------
(***************************************************************************)
(* A model of the app-ads toolkit: the master update (app_ads_update.py),  *)
(* the publisher checker (app_ads_checker.py) and the seller registry      *)
(* append (sellers_append.py).                                             *)
(*                                                                         *)
(* Text is modelled by what the code does with it.  A character is a       *)
(* one-character string (the em dash of the fixed banners is the atom      *)
(* "EMDASH"), a line is a sequence of characters, and a file is the        *)
(* sequence of its lines, i.e. text.splitlines().  The regular expressions *)
(* are matched character by character.                                     *)
(***************************************************************************)
EXTENDS Naturals, Integers, Sequences, FiniteSets, TLC

VARIABLES
    masterFile,   \* app_ads_update: the lines of the --master file
    partners,     \* app_ads_update: file name -> lines of the partner file
    masterRead,   \* app_ads_update: the master file as the latest run read it
    report,       \* app_ads_update: update_report.json of the latest run
    lastWritten,  \* app_ads_update: the merged list the master file was written
                  \* from by a run before the latest one, if by any

    rtLine,       \* round trip: the raw line
    rtPc,         \* round trip: "line", "invalid", "normalized", "serialized", "reparsed"
    rtRec,        \* round trip: the record of the line, per tool
    rtText,       \* round trip: the serialized record, per tool
    rtBack,       \* round trip: what the serialized text parses to, per tool
    chkMaster,    \* app_ads_checker: the lines of the --master file
    summary,      \* app_ads_checker: the summary dict (report.json)
    patches,      \* app_ads_checker: domain -> lines of <domain>_missing.txt
    base,         \* sellers_append: the document at --base, which is --out
    cand,         \* sellers_append: the document at --candidate
    baseBefore,   \* sellers_append: base as the last run loaded it
    sellers_appended, \* sellers_append: the summary (sellers_appended.json)
    appendError,  \* sellers_append: the exception of the last run, or "none"
    data,         \* sellers_validate: the parsed JSON document of --file
    errors,       \* sellers_validate: the errors list
    warnings,     \* sellers_validate: the warnings list
    verdict,      \* sellers_validate: how the run ended, "none" before it
    published,    \* patching: the lines of the publisher's app-ads.txt
    original,     \* patching: the publisher's app-ads.txt before any merge
    addfile,      \* patching: the lines of the --add file of app_ads_merge
    mergePc,      \* patching: "start", "checked", "merged", "remerged", "rechecked"
    checks,       \* patching: the outcomes of the checks of the document
    mergeBefore,  \* patching: the --in file as the latest merge read it
    to_add        \* patching: to_add of the latest merge

updateVars == <<masterFile, partners, masterRead, report, lastWritten>>

rtVars == <<rtLine, rtPc, rtRec, rtText, rtBack>>

chkVars == <<chkMaster, summary, patches>>

sellersVars == <<base, cand, baseBefore, sellers_appended, appendError>>

validateVars == <<data, errors, warnings, verdict>>

mergeVars ==
    <<published, original, addfile, mergePc, checks, mergeBefore, to_add>>

vars == <<updateVars, rtVars, chkVars, sellersVars, validateVars, mergeVars>>

\* None: a value no str, tuple or list of the model equals
None == <<"None">>

(***************************************************************************)
(* Bounds of the model.                                                    *)
(***************************************************************************)
\* Lines in the master file and the partner files of one state, in total.
MaxLines == 3

\* Characters in a token (system, publisher id, certification id) of a
\* round-trip line.
MaxTokLen == 2

\* Lines in the checker's master file.
MaxMasterLines == 2

\* Lines in a document a publisher serves.
MaxDocLines == 2

\* Sellers in the base document.
MaxBase == 1

\* Sellers in the candidate document.
MaxCand == 2

\* Sellers in a candidate document of the registry's history.
MaxNewCand == 1

\* Sellers in a validated document.
MaxSellers == 2

\* Lines of a publisher's document that is patched
MaxPubLines == 3

(***************************************************************************)
(* Characters.                                                             *)
(***************************************************************************)
UpperCase == <<"A", "B", "C", "D", "E", "F", "G", "H", "I", "J", "K", "L", "M",
               "N", "O", "P", "Q", "R", "S", "T", "U", "V", "W", "X", "Y", "Z">>

LowerCase == <<"a", "b", "c", "d", "e", "f", "g", "h", "i", "j", "k", "l", "m",
               "n", "o", "p", "q", "r", "s", "t", "u", "v", "w", "x", "y", "z">>

Digits == <<"0", "1", "2", "3", "4", "5", "6", "7", "8", "9">>

\* The characters of the model in code-point order (str comparison).
CodePoints == <<"\t", " ", "#", "'", "(", ")", "+", ",", "-", ".">> \o Digits
              \o <<":", "<", ">">> \o UpperCase \o <<"_">> \o LowerCase
              \o <<"EMDASH">>

Range(s) == {s[i] : i \in DOMAIN s}

Ord == [c \in Range(CodePoints) |->
          CHOOSE i \in DOMAIN CodePoints : CodePoints[i] = c]

UpperSet == Range(UpperCase)

AlnumSet == Range(UpperCase) \cup Range(LowerCase) \cup Range(Digits)

LowerOf == [c \in UpperSet |->
              LowerCase[CHOOSE i \in DOMAIN UpperCase : UpperCase[i] = c]]

UpperOf == [c \in Range(LowerCase) |->
              UpperCase[CHOOSE i \in DOMAIN LowerCase : LowerCase[i] = c]]

\* \s of the re module
IsSpace(c) == c \in {" ", "\t"}

\* [^,#\s]
IsTokChar(c) == ~IsSpace(c) /\ c # "," /\ c # "#"

\* [A-Za-z0-9]
IsAlnum(c) == c \in AlnumSet

\* str.lower()
lower(s) == [i \in DOMAIN s |-> IF s[i] \in UpperSet THEN LowerOf[s[i]] ELSE s[i]]

\* str.upper()
upper(s) == [i \in DOMAIN s |->
               IF s[i] \in Range(LowerCase) THEN UpperOf[s[i]] ELSE s[i]]

RECURSIVE LStrip(_)
LStrip(s) == IF s # <<>> /\ IsSpace(Head(s)) THEN LStrip(Tail(s)) ELSE s

RECURSIVE RStrip(_)
RStrip(s) ==
    IF s # <<>> /\ IsSpace(s[Len(s)]) THEN RStrip(SubSeq(s, 1, Len(s) - 1)) ELSE s

\* str.strip()
strip(s) == RStrip(LStrip(s))

\* s < t for str: by code point, a proper prefix first
RECURSIVE StrLess(_, _)
StrLess(s, t) ==
    IF t = <<>> THEN FALSE
    ELSE IF s = <<>> THEN TRUE
    ELSE IF Head(s) = Head(t) THEN StrLess(Tail(s), Tail(t))
    ELSE Ord[Head(s)] < Ord[Head(t)]

\* tuple comparison of the sort key (x[0], x[1], x[2], x[3])
RECURSIVE TupleLess(_, _)
TupleLess(a, b) ==
    IF b = <<>> THEN FALSE
    ELSE IF a = <<>> THEN TRUE
    ELSE IF Head(a) = Head(b) THEN TupleLess(Tail(a), Tail(b))
    ELSE StrLess(Head(a), Head(b))

\* sorted(S, key=lambda x:(x[0], x[1], x[2], x[3])) of a set of tuples
RECURSIVE sorted(_)
sorted(S) ==
    IF S = {} THEN <<>>
    ELSE LET m == CHOOSE x \in S : \A y \in S \ {x} : TupleLess(x, y)
         IN  <<m>> \o sorted(S \ {m})

\* sorted(list(S)) of a set of str
RECURSIVE sortedStrs(_)
sortedStrs(S) ==
    IF S = {} THEN <<>>
    ELSE LET m == CHOOSE x \in S : \A y \in S \ {x} : StrLess(x, y)
         IN  <<m>> \o sortedStrs(S \ {m})

(***************************************************************************)
(* The regular expressions LINE_RE and ENTRY_RE.                           *)
(***************************************************************************)
\* \s* from position i: the position after it
RECURSIVE SpaceEnd(_, _)
SpaceEnd(s, i) == IF i <= Len(s) /\ IsSpace(s[i]) THEN SpaceEnd(s, i + 1) ELSE i

\* [^,#\s]* from position i: the position after it
RECURSIVE TokEnd(_, _)
TokEnd(s, i) == IF i <= Len(s) /\ IsTokChar(s[i]) THEN TokEnd(s, i + 1) ELSE i

\* [A-Za-z0-9]* from position i: the position after it
RECURSIVE AlnumEnd(_, _)
AlnumEnd(s, i) == IF i <= Len(s) /\ IsAlnum(s[i]) THEN AlnumEnd(s, i + 1) ELSE i

\* LINE_RE = ^\s*([#].*)?$ : a blank line or a comment
LINE_RE(raw) ==
    LET j == SpaceEnd(raw, 1)
    IN  j > Len(raw) \/ raw[j] = "#"

kDIRECT == <<"D", "I", "R", "E", "C", "T">>

kRESELLER == <<"R", "E", "S", "E", "L", "L", "E", "R">>

StartsAt(s, i, w) == i + Len(w) - 1 <= Len(s) /\ SubSeq(s, i, i + Len(w) - 1) = w

\* ENTRY_RE = ^\s*([^,#\s]+)\s*,\s*([^,#\s]+)\s*,\s*(DIRECT|RESELLER)\s*
\*            (?:,\s*([A-Za-z0-9]+))?\s*$
\* The groups (m.group(1,2,3,4), an unmatched group 4 being None), or None
\* when the line does not match.  The classes of adjacent parts are disjoint,
\* so the greedy match is the only one.
ENTRY_RE(raw) ==
    LET n  == Len(raw)
        i1 == SpaceEnd(raw, 1)
        e1 == TokEnd(raw, i1)
        c1 == SpaceEnd(raw, e1)
        i2 == SpaceEnd(raw, c1 + 1)
        e2 == TokEnd(raw, i2)
        c2 == SpaceEnd(raw, e2)
        i3 == SpaceEnd(raw, c2 + 1)
        rel == IF StartsAt(raw, i3, kDIRECT) THEN kDIRECT
               ELSE IF StartsAt(raw, i3, kRESELLER) THEN kRESELLER
               ELSE None
        e3 == i3 + Len(rel)
        c3 == SpaceEnd(raw, e3)
        i4 == SpaceEnd(raw, c3 + 1)
        e4 == AlnumEnd(raw, i4)
        c4 == SpaceEnd(raw, e4)
    IN  IF e1 = i1 \/ c1 > n \/ raw[c1] # "," THEN None
        ELSE IF e2 = i2 \/ c2 > n \/ raw[c2] # "," THEN None
        ELSE IF rel = None THEN None
        ELSE IF c3 > n
             THEN <<SubSeq(raw, i1, e1 - 1), SubSeq(raw, i2, e2 - 1), rel, None>>
        ELSE IF raw[c3] # "," \/ e4 = i4 \/ c4 <= n THEN None
        ELSE <<SubSeq(raw, i1, e1 - 1), SubSeq(raw, i2, e2 - 1), rel,
               SubSeq(raw, i4, e4 - 1)>>

\* (system.lower(), pubid, rel.upper(), (caid or '').lower())
EntryOf(m) ==
    <<lower(m[1]), m[2], upper(m[3]), IF m[4] = None THEN <<>> ELSE lower(m[4])>>

(***************************************************************************)
(* app_ads_update.py                                                       *)
(***************************************************************************)
\* parse_entries_from_text, on the lines of the text: <<entries, invalid>>
RECURSIVE parse_entries_from_text(_)
parse_entries_from_text(lines) ==
    IF lines = <<>> THEN <<(<<>>), (<<>>)>>
    ELSE LET raw  == Head(lines)
             rest == parse_entries_from_text(Tail(lines))
         IN  IF LINE_RE(raw) THEN rest
             ELSE LET m == ENTRY_RE(raw)
                  IN  IF m # None
                      THEN <<(<<EntryOf(m)>>) \o rest[1], rest[2]>>
                      ELSE <<rest[1], (<<strip(raw)>>) \o rest[2]>>

load_entries_from_file(file) == parse_entries_from_text(file)

load_master(file) == load_entries_from_file(file)

kSep == <<",", " ">>

\* fmt with the certification id always appended (a trailing empty field)
fmt_trailing_field(e) == e[1] \o kSep \o e[2] \o kSep \o e[3] \o kSep \o e[4]

\* f"{system}, {pubid}, {rel}" + (f", {caid}" if caid else "")
fmt(e) ==
    e[1] \o kSep \o e[2] \o kSep \o e[3]
         \o (IF e[4] # <<>> THEN kSep \o e[4] ELSE <<>>)

\* The fixed banner of write_master: header.splitlines()
MasterHeader == <<
    <<"#", " ", "M", "o", "n", "e", "t", "i", "z", "r", " ", "EMDASH", " ",
      "a", "p", "p", "-", "a", "d", "s", ".", "t", "x", "t", " ", "m", "a",
      "s", "t", "e", "r", " ", "l", "i", "s", "t", " ", "(", "S", "O", "U",
      "R", "C", "E", " ", "O", "F", " ", "T", "R", "U", "T", "H", ")">>,
    <<"#", " ", "F", "o", "r", "m", "a", "t", ":", " ", "<", "a", "d", " ",
      "s", "y", "s", "t", "e", "m", " ", "d", "o", "m", "a", "i", "n", ">",
      ",", " ", "<", "p", "u", "b", "l", "i", "s", "h", "e", "r", " ", "a",
      "c", "c", "o", "u", "n", "t", " ", "i", "d", ">", ",", " ", "<", "r",
      "e", "l", "a", "t", "i", "o", "n", "s", "h", "i", "p", ">", ",", " ",
      "<", "c", "e", "r", "t", " ", "a", "u", "t", "h", " ", "i", "d", " ",
      "-", " ", "o", "p", "t", "i", "o", "n", "a", "l", ">">>,
    <<"#", " ", "L", "i", "n", "e", "s", " ", "b", "e", "l", "o", "w", " ",
      "a", "r", "e", " ", "a", "u", "t", "o", "-", "n", "o", "r", "m", "a",
      "l", "i", "z", "e", "d", ".", " ", "K", "e", "e", "p", " ", "a", "l",
      "p", "h", "a", "b", "e", "t", "i", "z", "e", "d", " ", "a", "n", "d",
      " ", "d", "e", "d", "u", "p", "l", "i", "c", "a", "t", "e", "d", ".">>,
    <<"#", " ", "-", "-", "-", "-", "-", " ", "B", "E", "G", "I", "N", " ",
      "A", "U", "T", "H", "O", "R", "I", "Z", "E", "D", " ", "L", "I", "N",
      "E", "S", " ", "-", "-", "-", "-", "-">> >>

\* footer.splitlines(), without the line break that footer starts with
MasterFooter == <<
    <<"#", " ", "-", "-", "-", "-", "-", " ", "E", "N", "D", " ", "A", "U",
      "T", "H", "O", "R", "I", "Z", "E", "D", " ", "L", "I", "N", "E", "S",
      " ", "-", "-", "-", "-", "-">> >>

\* write_master: the lines of header + "\n".join(fmt(e) ...) + footer.  The
\* header ends with a line break and the footer starts with one, so an empty
\* body leaves one empty line between them.
write_master(entries) ==
    MasterHeader
    \o (IF entries = <<>> THEN << <<>> >> ELSE [i \in DOMAIN entries |-> fmt(entries[i])])
    \o MasterFooter

\* The names of the partner files: sorted(glob.glob(partners_dir/*.txt))
partner_files == <<"p1.txt", "p2.txt">>

KeyOf(e) == <<e[1], e[2], e[3]>>

\* by_key.setdefault(k, set()).add(caid) for the master entries
RECURSIVE SeedByKey(_, _)
SeedByKey(entries, by_key) ==
    IF entries = <<>> THEN by_key
    ELSE LET e == Head(entries)
             k == KeyOf(e)
             old == IF k \in DOMAIN by_key THEN by_key[k] ELSE {}
         IN  SeedByKey(Tail(entries),
                       [x \in DOMAIN by_key \cup {k} |->
                           IF x = k THEN old \cup {e[4]} ELSE by_key[x]])

\* the condition without its last conjunct: an empty id counts as known
ConflictCond_any_known(e, caids) == caids # {} /\ e[4] \notin caids

\* the condition without its middle conjunct: a known id conflicts again
ConflictCond_repeats(e, caids) == caids # {} /\ \E x \in caids : x # <<>>

\* caids and (e[3] not in caids) and any(x for x in caids if x)
ConflictCond(e, caids) ==
    caids # {} /\ e[4] \notin caids /\ \E x \in caids : x # <<>>

\* The body of "for e in ents" of one partner file; acc is
\* [by_key, duplicates, conflicts, invalid_lines].
RECURSIVE ScanEntries(_, _, _, _)
ScanEntries(pf, ents, master_set, acc) ==
    IF ents = <<>> THEN acc
    ELSE LET e == Head(ents)
             k == KeyOf(e)
             caids == IF k \in DOMAIN acc.by_key THEN acc.by_key[k] ELSE {}
             dups == IF e \in master_set
                     THEN Append(acc.duplicates, <<pf, fmt(e)>>)
                     ELSE acc.duplicates
             confs == IF e[4] # <<>> /\ ConflictCond(e, caids)
                      THEN Append(acc.conflicts, <<pf, fmt(e), sortedStrs(caids)>>)
                      ELSE acc.conflicts
             caids2 == IF e[4] # <<>> THEN caids \cup {e[4]} ELSE caids
         IN  ScanEntries(pf, Tail(ents), master_set,
                 [by_key |-> [x \in DOMAIN acc.by_key \cup {k} |->
                                 IF x = k THEN caids2 ELSE acc.by_key[x]],
                  duplicates |-> dups,
                  conflicts |-> confs,
                  invalid_lines |-> acc.invalid_lines])

\* One partner file of the scan: its invalid lines are recorded
\* (invalid_lines.extend), then its entries are scanned
ScanFile(pf, loaded, master_set, acc) ==
    ScanEntries(pf, loaded[1], master_set,
        [acc EXCEPT !.invalid_lines =
            @ \o [i \in DOMAIN loaded[2] |-> <<pf, loaded[2][i]>>]])

\* "for pf in partner_files" of the scan: acc is
\* [by_key, duplicates, conflicts, invalid_lines].
RECURSIVE ScanPartners(_, _, _, _)
ScanPartners(files, dir, master_set, acc) ==
    IF files = <<>> THEN acc
    ELSE ScanPartners(Tail(files), dir, master_set,
             ScanFile(Head(files), load_entries_from_file(dir[Head(files)]),
                      master_set, acc))

\* the merge loop taking the first partner file only
MergePartners_first_only(files, dir, merged) ==
    IF files = <<>> THEN merged
    ELSE merged \cup Range(load_entries_from_file(dir[Head(files)])[1])

\* "for pf in partner_files: merged.update(ents)"
RECURSIVE MergePartners(_, _, _)
MergePartners(files, dir, merged) ==
    IF files = <<>> THEN merged
    ELSE MergePartners(Tail(files), dir,
             merged \cup Range(load_entries_from_file(dir[Head(files)])[1]))

\* main() up to the write: what one run computes from the master file and
\* the partner directory (with the scan's by_key, duplicates, invalid_lines
\* and conflicts).
UpdateCompute(master, dir) ==
    LET loaded == load_master(master)
        master_entries == loaded[1]
        invalid_master == loaded[2]
        master_set == Range(master_entries)
        by_key == SeedByKey(master_entries, <<>>)
        scan == ScanPartners(partner_files, dir, master_set,
                    [by_key |-> by_key, duplicates |-> <<>>,
                     conflicts |-> <<>>, invalid_lines |-> <<>>])
        merged == sorted(MergePartners(partner_files, dir, master_set))
        NotInMaster(e) == e \notin master_set
        added == SelectSeq(merged, NotInMaster)
    IN  [master_entries |-> master_entries, merged |-> merged, added |-> added]
        @@ scan

\* The report dict of main(), and with it the merged list the run holds.
UpdateReport(c, dry_run) ==
    [ran |-> TRUE,
     dry_run |-> dry_run,
     master_count_before |-> Len(c.master_entries),
     master_count_after |-> Len(c.merged),
     newly_added |-> Len(c.added),
     merged |-> c.merged,
     added |-> [i \in DOMAIN c.added |-> fmt(c.added[i])],
     duplicates |-> c.duplicates,
     invalid_lines |-> c.invalid_lines,
     conflicts |-> c.conflicts]

\* One run of app_ads_update.py, with --out left to its default (--master).
update_main ==
    LET c == UpdateCompute(masterFile, partners)
    IN  \E dry_run \in BOOLEAN :
          /\ report' = UpdateReport(c, dry_run)
          /\ masterFile' = IF dry_run THEN masterFile
                           ELSE write_master(report'.merged)
          /\ masterRead' = masterFile
          /\ lastWritten' = IF report.ran /\ ~report.dry_run
                            THEN [written |-> TRUE, merged |-> report.merged]
                            ELSE lastWritten
          /\ UNCHANGED <<partners, rtVars, chkVars, sellersVars, validateVars, mergeVars>>

(***************************************************************************)
(* app_ads_checker.py: the parser and the serializer                       *)
(***************************************************************************)
\* The entries of the matching lines, in order (lines 48-54); a line that
\* matches neither expression is dropped.
RECURSIVE MatchingEntries(_)
MatchingEntries(lines) ==
    IF lines = <<>> THEN <<>>
    ELSE LET raw == Head(lines)
             rest == MatchingEntries(Tail(lines))
         IN  IF LINE_RE(raw) THEN rest
             ELSE LET m == ENTRY_RE(raw)
                  IN  IF m # None THEN <<EntryOf(m)>> \o rest ELSE rest

\* parse_entries(text), text not None: sorted(set(entries), key=...)
parse_entries(lines) == sorted(Range(MatchingEntries(lines)))

\* format_entry with the certification id left out
format_entry_drops_caid(e) == e[1] \o kSep \o e[2] \o kSep \o e[3]

\* format_entry
format_entry(e) ==
    e[1] \o kSep \o e[2] \o kSep \o e[3]
         \o (IF e[4] # <<>> THEN kSep \o e[4] ELSE <<>>)

\* load_master of the checker: the matching lines of the file, deduplicated
\* and sorted
chk_load_master(file) == sorted(Range(MatchingEntries(file)))

\* The rows of publishers.csv: r["domain"].strip()
PublisherRows == <<"d1.example", "d2.example">>

\* An answer of urllib.request.urlopen(url).read().decode(errors='replace'):
\* the text, or an exception; "untried" for a URL that was not requested.
Failed == [status |-> "fail", content |-> <<>>]

Untried == [status |-> "untried", content |-> <<>>]

Fetched(doc) == [status |-> "ok", content |-> doc]

\* fetch_app_ads_txt: https first, then http; (None, None) when both fail.
\* isNone tells content None from the text.
fetch_app_ads_txt(host, https, http) ==
    IF https.status = "ok"
    THEN [url |-> <<"https", host>>, content |-> https.content, isNone |-> FALSE]
    ELSE IF http.status = "ok"
    THEN [url |-> <<"http", host>>, content |-> http.content, isNone |-> FALSE]
    ELSE [url |-> None, content |-> <<>>, isNone |-> TRUE]

\* "if not content": None or the empty text
NotContent(f) == f.isNone \/ f.content = <<>>

\* the status with the test inverted
StatusOf_inverted(missing) == IF missing # <<>> THEN "OK" ELSE "MISSING"

\* status = "OK" if not missing else "MISSING"
StatusOf(missing) == IF missing = <<>> THEN "OK" ELSE "MISSING"

\* the differences with extra not reduced by the master
diff_extra_all(master_set, current_set) ==
    [missing |-> sorted(master_set \ current_set), extra |-> sorted(current_set)]

\* missing = sorted(list(master_set - current_set), ...) and
\* extra = sorted(list(current_set - master_set), ...)
diff(master_set, current_set) ==
    [missing |-> sorted(master_set \ current_set),
     extra |-> sorted(current_set \ master_set)]

PatchHeader ==
    <<"#", " ", "L", "i", "n", "e", "s", " ", "t", "o", " ", "A", "D", "D",
      " ", "t", "o", " ", "t", "h", "i", "s", " ", "p", "u", "b", "l", "i",
      "s", "h", "e", "r", "'", "s", " ", "a", "p", "p", "-", "a", "d", "s",
      ".", "t", "x", "t", " ", "t", "o", " ", "m", "a", "t", "c", "h", " ",
      "m", "a", "s", "t", "e", "r">>

PatchInSync ==
    <<"#", " ", "N", "o", " ", "m", "i", "s", "s", "i", "n", "g", " ", "l",
      "i", "n", "e", "s", " ", "EMDASH", " ", "a", "l", "r", "e", "a", "d",
      "y", " ", "i", "n", " ", "s", "y", "n", "c", ".">>

\* the suggested patch written for a compared publisher
PatchLines(missing) ==
    IF missing # <<>>
    THEN <<PatchHeader>> \o [i \in DOMAIN missing |-> format_entry(missing[i])]
    ELSE <<PatchInSync>>

\* One iteration of "for r in rows": the row after those already reported,
\* with the answers of the network to the two requests.  The entry keeps the
\* lists current, missing and extra of the iteration beside the formatted
\* lines.
check_publisher(https, http) ==
    /\ Len(summary.publishers) < Len(PublisherRows)
    /\ LET domain == PublisherRows[Len(summary.publishers) + 1]
           master_set == Range(chk_load_master(chkMaster))
           f == fetch_app_ads_txt(domain, https, http)
           current == parse_entries(f.content)
           d == diff(master_set, Range(current))
           status == StatusOf(d.missing)
       IN  IF NotContent(f)
              THEN /\ summary' = [summary EXCEPT
                         !.errors = @ + 1,
                         !.publishers = Append(@,
                            [domain |-> domain, url |-> f.url,
                             status |-> "ERROR_FETCHING", current |-> <<>>,
                             missing |-> <<>>, extra |-> <<>>,
                             missing_lines |-> <<>>, extra_lines |-> <<>>,
                             current_count |-> 0])]
                   /\ UNCHANGED patches
              ELSE /\ summary' = [summary EXCEPT
                         !.ok = IF status = "OK" THEN @ + 1 ELSE @,
                         !.missing = IF status = "OK" THEN @ ELSE @ + 1,
                         !.publishers = Append(@,
                            [domain |-> domain, url |-> f.url,
                             status |-> status, current |-> current,
                             missing |-> d.missing, extra |-> d.extra,
                             missing_lines |->
                                [i \in DOMAIN d.missing |-> format_entry(d.missing[i])],
                             extra_lines |->
                                [i \in DOMAIN d.extra |-> format_entry(d.extra[i])],
                             current_count |-> Len(current)])]
                   /\ patches' = [patches EXCEPT ![domain] = PatchLines(d.missing)]
    /\ UNCHANGED <<chkMaster, updateVars, rtVars, sellersVars, validateVars, mergeVars>>

(***************************************************************************)
(* The master update as a state machine: the files are drawn at the start, *)
(* every step is one run of app_ads_update.py.                             *)
(***************************************************************************)
\* The lines the files of the model are made of:
\*   "a,1,DIRECT"  "A, 1 ,DIRECT, X"  "a,1,DIRECT,y"  "b,1,RESELLER,y"
\*   "a,1,direct" (malformed: the grammar is case-sensitive)
lA == <<"a", ",", "1", ",", "D", "I", "R", "E", "C", "T">>

lAx == <<"A", ",", " ", "1", " ", ",", "D", "I", "R", "E", "C", "T", ",", " ", "X">>

lAy == <<"a", ",", "1", ",", "D", "I", "R", "E", "C", "T", ",", "y">>

lBy == <<"b", ",", "1", ",", "R", "E", "S", "E", "L", "L", "E", "R", ",", "y">>

lBad == <<"a", ",", "1", ",", "d", "i", "r", "e", "c", "t">>

LinePool == {lA, lAx, lAy, lBy, lBad}

SeqsUpTo(S, n) == UNION {[1..k -> S] : k \in 0..n}

NoReport == [ran |-> FALSE]

UpdateStart ==
    \E t \in SeqsUpTo(LinePool, MaxLines) :
      \E i \in 0..Len(t) :
        \E j \in i..Len(t) :
          /\ masterFile = SubSeq(t, 1, i)
          /\ partners = [f \in Range(partner_files) |->
                            IF f = partner_files[1] THEN SubSeq(t, i + 1, j)
                            ELSE SubSeq(t, j + 1, Len(t))]
          /\ masterRead = <<>>
          /\ report = NoReport
          /\ lastWritten = [written |-> FALSE]

UpdateIdle ==
    /\ masterFile = <<>>
    /\ partners = [f \in Range(partner_files) |-> <<>>]
    /\ masterRead = <<>>
    /\ report = NoReport
    /\ lastWritten = [written |-> FALSE]

(***************************************************************************)
(* The round trip of one line: normalize, serialize, normalize again, with *)
(* the parser and serializer of the update and those of the checker.       *)
(***************************************************************************)
RtIdle ==
    /\ rtLine = <<>>
    /\ rtPc = "idle"
    /\ rtRec = <<>>
    /\ rtText = <<>>
    /\ rtBack = <<>>

Tokens(chars, n) == UNION {[1..k -> chars] : k \in 1..n}

\* system: a token of a and B; publisher id: of 1 and Z; certification id: of
\* x and Q, or the non-alphanumeric "x-"
RtSystems == Tokens({"a", "B"}, MaxTokLen)

RtPubIds == Tokens({"1", "Z"}, MaxTokLen)

RtCaids == Tokens({"x", "Q"}, MaxTokLen) \cup {<<"x", "-">>}

RtRels == {kDIRECT, kRESELLER, <<"d", "i", "r", "e", "c", "t">>}

\* the white space around the fields
RtPads == {<<>>, <<" ", "\t">>}

RtLines ==
    {pad \o sys \o pad \o <<",">> \o pad \o pub \o pad \o <<",">> \o pad
         \o rel \o pad \o tail :
       pad \in RtPads, sys \in RtSystems, pub \in RtPubIds, rel \in RtRels,
       tail \in {<<>>} \cup {<<",">> \o p \o caid \o p :
                                p \in RtPads, caid \in RtCaids}}

RoundTripStart ==
    /\ rtLine \in RtLines
    /\ rtPc = "line"
    /\ rtRec = <<>>
    /\ rtText = <<>>
    /\ rtBack = <<>>

\* parse_entries_from_text / parse_entries on the line
rt_normalize ==
    /\ rtPc = "line"
    /\ LET u == parse_entries_from_text(<<rtLine>>)
           c == parse_entries(<<rtLine>>)
       IN  /\ rtRec' = [update |-> u, checker |-> c]
           /\ rtPc' = IF u[1] = <<>> THEN "invalid" ELSE "normalized"
    /\ UNCHANGED <<rtLine, rtText, rtBack, updateVars, chkVars, sellersVars, validateVars, mergeVars>>

\* fmt / format_entry on the record
rt_serialize ==
    /\ rtPc = "normalized"
    /\ rtText' = [update |-> fmt(rtRec.update[1][1]),
                  checker |-> format_entry(rtRec.checker[1])]
    /\ rtPc' = "serialized"
    /\ UNCHANGED <<rtLine, rtRec, rtBack, updateVars, chkVars, sellersVars, validateVars, mergeVars>>

\* parse_entries_from_text / parse_entries on the serialized record
rt_reparse ==
    /\ rtPc = "serialized"
    /\ rtBack' = [update |-> parse_entries_from_text(<<rtText.update>>),
                  checker |-> parse_entries(<<rtText.checker>>)]
    /\ rtPc' = "reparsed"
    /\ UNCHANGED <<rtLine, rtRec, rtText, updateVars, chkVars, sellersVars, validateVars, mergeVars>>

(***************************************************************************)
(* tools/sellers_append.py.  A sellers document is modelled by its sellers *)
(* list (has_sellers: the key holds a list) and its version (has_version:  *)
(* the key is present); a seller by its seller_id (has_id: the key is      *)
(* present) and its name, which stands for the other attributes.           *)
(***************************************************************************)
\* version_str.split(".")
RECURSIVE SplitDot(_)
SplitDot(str) ==
    IF \A i \in DOMAIN str : str[i] # "." THEN <<str>>
    ELSE LET i == CHOOSE k \in DOMAIN str :
                    str[k] = "." /\ \A j \in 1..(k - 1) : str[j] # "."
         IN  <<SubSeq(str, 1, i - 1)>> \o SplitDot(SubSeq(str, i + 1, Len(str)))

\* the value of a run of decimal digits
RECURSIVE DigitsVal(_)
DigitsVal(ds) ==
    IF ds = <<>> THEN 0
    ELSE DigitsVal(SubSeq(ds, 1, Len(ds) - 1)) * 10
         + (CHOOSE d \in 0..9 : Digits[d + 1] = ds[Len(ds)])

\* int(str): surrounding whitespace is dropped, then an optional sign and
\* decimal digits; ok is FALSE where int raises ValueError.  (The texts given
\* to it here hold no underscore.)
ParseInt(str) ==
    LET t == strip(str)
        signed == t # <<>> /\ t[1] \in {"+", "-"}
        body == IF signed THEN Tail(t) ELSE t
        ok == body # <<>> /\ \A i \in DOMAIN body : body[i] \in Range(Digits)
    IN  [ok |-> ok,
         value |-> IF ~ok THEN 0
                   ELSE IF signed /\ t[1] = "-" THEN 0 - DigitsVal(body)
                   ELSE DigitsVal(body)]

RECURSIVE NatToStr(_)
NatToStr(n) ==
    IF n < 10 THEN <<Digits[n + 1]>>
    ELSE NatToStr(n \div 10) \o <<Digits[(n % 10) + 1]>>

\* f"{n}" of an int
IntToStr(n) == IF n < 0 THEN <<"-">> \o NatToStr(0 - n) ELSE NatToStr(n)

\* bump_minor keeping the components after the second
bump_minor_keeps_rest(version_str) ==
    LET parts == SplitDot(version_str)
        major == ParseInt(parts[1])
        minor == ParseInt(parts[2])
        start == Len(parts[1]) + Len(parts[2]) + 2
    IN  IF Len(parts) < 2 THEN version_str
        ELSE IF ~major.ok \/ ~minor.ok THEN version_str
        ELSE IntToStr(major.value) \o <<".">> \o IntToStr(minor.value + 1)
             \o SubSeq(version_str, start, Len(version_str))

bump_minor(version_str) ==
    LET parts == SplitDot(version_str)
        major == ParseInt(parts[1])
        minor == ParseInt(parts[2])
    IN  IF Len(parts) < 2 THEN version_str
        ELSE IF ~major.ok \/ ~minor.ok THEN version_str
        ELSE IntToStr(major.value) \o <<".">> \o IntToStr(minor.value + 1)

\* d[k] = v where a key already present keeps its value
DictPut_keeps_first(d, k, v) ==
    IF \E i \in DOMAIN d : d[i][1] = k THEN d ELSE Append(d, <<k, v>>)

\* d[k] = v on a dict kept as the sequence of its (key, value) pairs in
\* insertion order: a key already present keeps its place and takes the value
DictPut(d, k, v) ==
    IF \E i \in DOMAIN d : d[i][1] = k
    THEN [i \in DOMAIN d |-> IF d[i][1] = k THEN <<k, v>> ELSE d[i]]
    ELSE Append(d, <<k, v>>)

\* {str(s["seller_id"]).strip(): s for s in sellers if "seller_id" in s}
RECURSIVE ById(_)
ById(sellers) ==
    IF sellers = <<>> THEN <<>>
    ELSE LET sl == sellers[Len(sellers)]
             d == ById(SubSeq(sellers, 1, Len(sellers) - 1))
         IN  IF sl.has_id THEN DictPut(d, strip(sl.seller_id), sl) ELSE d

Keys(d) == [i \in DOMAIN d |-> d[i][1]]

\* new_ids without the test against the base
new_ids_all(cand_by_id, base_by_id) ==
    LET Nonempty(sid) == sid # <<>>
    IN  SelectSeq(Keys(cand_by_id), Nonempty)

\* new_ids testing against the base's seller_ids as written, not trimmed
new_ids_untrimmed_base(cand_by_id, base_by_id) ==
    LET IsNew(sid) == /\ sid # <<>>
                      /\ \A i \in DOMAIN base_by_id :
                            base_by_id[i][2].seller_id # sid
    IN  SelectSeq(Keys(cand_by_id), IsNew)

\* [sid for sid in cand_by_id.keys() if sid and sid not in base_by_id]
new_ids(cand_by_id, base_by_id) ==
    LET IsNew(sid) == sid # <<>> /\ sid \notin Range(Keys(base_by_id))
    IN  SelectSeq(Keys(cand_by_id), IsNew)

\* [cand_by_id[sid] for sid in new_ids]
new_sellers(cand_by_id, ids) ==
    [i \in DOMAIN ids |->
        cand_by_id[CHOOSE k \in DOMAIN cand_by_id : cand_by_id[k][1] = ids[i]][2]]

kDefaultVersion == <<"1", ".", "0">>

\* main of sellers_append, with --out the path of --base
sellers_append_main ==
    /\ baseBefore' = base
    /\ UNCHANGED <<cand, updateVars, rtVars, chkVars, validateVars, mergeVars>>
    /\ IF ~base.has_sellers \/ ~cand.has_sellers
       THEN /\ appendError' = "ValueError"
            /\ UNCHANGED <<base, sellers_appended>>
       ELSE LET base_by_id == ById(base.sellers)
                cand_by_id == ById(cand.sellers)
                ids == new_ids(cand_by_id, base_by_id)
                news == new_sellers(cand_by_id, ids)
                old_version == IF base.has_version THEN base.version
                               ELSE kDefaultVersion
                new_version == IF news # <<>> THEN bump_minor(old_version)
                               ELSE old_version
            IN  /\ appendError' = "none"
                /\ base' = IF news # <<>>
                           THEN [base EXCEPT !.sellers = @ \o news,
                                             !.has_version = TRUE,
                                             !.version = new_version]
                           ELSE base
                /\ sellers_appended' =
                       [ran |-> TRUE,
                        appended_count |-> Len(news),
                        appended_ids |-> ids,
                        version_before |-> old_version,
                        version_after |-> new_version]

Seller(id, name) == [has_id |-> TRUE, seller_id |-> id, name |-> name]

\* seller_id "1" twice with different names, "2", " 2", "" and a seller
\* without seller_id
SellerPool ==
    {Seller(<<"1">>, "A"), Seller(<<"1">>, "B"), Seller(<<"2">>, "C"),
     Seller(<<" ", "2">>, "D"), Seller(<<>>, "E"),
     [has_id |-> FALSE, seller_id |-> <<>>, name |-> "F"]}

\* "1.3"  "1.9"  "1.3.7"  "01.09"  "2"  "1.x"  "x.1"  "1.-2"
VersionPool ==
    {<<"1", ".", "3">>, <<"1", ".", "9">>, <<"1", ".", "3", ".", "7">>,
     <<"0", "1", ".", "0", "9">>, <<"2">>, <<"1", ".", "x">>,
     <<"x", ".", "1">>, <<"1", ".", "-", "2">>}

NoSellers == [has_sellers |-> FALSE, sellers |-> <<>>]

SellersIdle ==
    /\ base = [has_sellers |-> FALSE, sellers |-> <<>>,
               has_version |-> FALSE, version |-> <<>>]
    /\ cand = NoSellers
    /\ baseBefore = base
    /\ sellers_appended = [ran |-> FALSE]
    /\ appendError = "idle"

SellersStart ==
    /\ \E bs \in {NoSellers} \cup
                  {[has_sellers |-> TRUE, sellers |-> q] :
                      q \in SeqsUpTo(SellerPool, MaxBase)} :
         \E v \in {[has_version |-> FALSE, version |-> <<>>]} \cup
                   {[has_version |-> TRUE, version |-> w] : w \in VersionPool} :
            base = [has_sellers |-> bs.has_sellers, sellers |-> bs.sellers,
                    has_version |-> v.has_version, version |-> v.version]
    /\ cand \in {NoSellers} \cup
                 {[has_sellers |-> TRUE, sellers |-> q] :
                     q \in SeqsUpTo(SellerPool, MaxCand)}
    /\ baseBefore = base
    /\ sellers_appended = [ran |-> FALSE]
    /\ appendError = "none"

\* Sellers that all have a non-empty seller_id, no two the same
UniqueIds(sellers) ==
    /\ \A i \in DOMAIN sellers : sellers[i].has_id /\ sellers[i].seller_id # <<>>
    /\ \A i \in DOMAIN sellers : \A j \in DOMAIN sellers :
          i # j => sellers[i].seller_id # sellers[j].seller_id

\* A version of exactly two dot-separated integer components
IsMajorMinor(version_str) ==
    LET parts == SplitDot(version_str)
    IN  Len(parts) = 2 /\ ParseInt(parts[1]).ok /\ ParseInt(parts[2]).ok

\* The candidate documents of the registry's history
NewCandidates ==
    {[has_sellers |-> TRUE, sellers |-> q] : q \in SeqsUpTo(SellerPool, MaxNewCand)}

\* A registry with unique seller_ids and a MAJOR.MINOR version, and a first
\* candidate
RegistryStart ==
    /\ \E q \in {x \in SeqsUpTo(SellerPool, MaxBase) : UniqueIds(x)} :
         \E w \in {x \in VersionPool : IsMajorMinor(x)} :
            base = [has_sellers |-> TRUE, sellers |-> q,
                    has_version |-> TRUE, version |-> w]
    /\ cand \in NewCandidates
    /\ baseBefore = base
    /\ sellers_appended = [ran |-> FALSE]
    /\ appendError = "none"

\* sellers_generate.py writes another candidate document (--out)
generate_candidate ==
    /\ cand' \in NewCandidates \ {cand}
    /\ UNCHANGED <<base, baseBefore, sellers_appended, appendError>>
    /\ UNCHANGED <<updateVars, rtVars, chkVars, validateVars, mergeVars>>

(***************************************************************************)
(* tools/sellers_validate.py.  The document is modelled by the kind of its *)
(* top level, its "sellers" key (kind "absent", "list" or "other") and its *)
(* "version" key (kind "absent", "str" or "other").  A field of a seller   *)
(* is None when the key is absent, else its text; is_confidential and      *)
(* is_passthrough are "absent", "int0", "int1", "int2" or "str1" (the JSON *)
(* numbers 0, 1, 2 and the JSON string "1").  An error or a warning is the *)
(* index it is recorded for (-1 for the top level) and its kind.           *)
(***************************************************************************)
VALID_TYPES == {<<"P", "U", "B", "L", "I", "S", "H", "E", "R">>, <<"I", "N", "T", "E", "R", "M", "E", "D", "I", "A", "R", "Y">>, <<"B", "O", "T", "H">>}

kHttp == <<"h", "t", "t", "p", ":", "/", "/">>

kHttps == <<"h", "t", "t", "p", "s", ":", "/", "/">>

Top == -1

\* validate_parent for an object (lines 57-73)
validate_parent_object(obj) ==
    [errors |->
        (IF obj.sellers_kind = "absent" THEN <<<<Top, "sellers missing">>>>
         ELSE IF obj.sellers_kind # "list" THEN <<<<Top, "sellers not array">>>>
         ELSE <<>>)
        \o (IF obj.version_kind = "absent" THEN <<<<Top, "version missing">>>>
            ELSE IF obj.version_kind # "str" THEN <<<<Top, "version not string">>>>
            ELSE <<>>),
     warnings |->
        IF obj.version_kind = "str" /\ obj.version # <<"1", ".", "0">>
        THEN <<<<Top, "version">>>> ELSE <<>>]

\* validate_parent
validate_parent(obj) ==
    IF obj.top # "object"
    THEN [errors |-> <<<<Top, "not an object">>>>, warnings |-> <<>>]
    ELSE validate_parent_object(obj)

\* is_conf / ip in (0, 1, "0", "1")
IsZeroOne(v) == v \in {"int0", "int1", "str0", "str1"}

\* int(is_conf) if str(is_conf).isdigit() else 0, is_conf = s.get(..., 0)
is_conf_val(v) ==
    CASE v \in {"int1", "str1"} -> 1
      [] v = "int2" -> 2
      [] OTHER -> 0

\* DOMAIN_BAD_CHARS.search(d)
HasBadChar(d) == \E i \in DOMAIN d : IsSpace(d[i]) \/ d[i] \in {"/", ":"}

\* d.startswith(w)
StartsWith(d, w) == Len(d) >= Len(w) /\ SubSeq(d, 1, Len(w)) = w

\* lines 146-150: the errors of the domain
DomainErrors(idx, sl) ==
    IF sl.domain # None /\ strip(sl.domain) = <<>>
    THEN <<<<idx, "domain empty">>>> ELSE <<>>

\* lines 146-167: the warnings of the domain, d = str(domain).strip()
DomainWarnings(idx, sl, d) ==
    IF sl.domain = None
    THEN (IF is_conf_val(sl.is_confidential) = 0
          THEN <<<<idx, "domain missing">>>> ELSE <<>>)
    ELSE IF d = <<>> THEN <<>>
    ELSE (IF HasBadChar(d) THEN <<<<idx, "domain suspicious">>>> ELSE <<>>)
         \o (IF StartsWith(d, kHttp) \/ StartsWith(d, kHttps)
             THEN <<<<idx, "domain scheme">>>> ELSE <<>>)

\* the seller_type rule taking the type as written
TypeErrors_case_sensitive(idx, st) ==
    IF st = <<>> THEN <<<<idx, "seller_type missing">>>>
    ELSE IF st \notin VALID_TYPES THEN <<<<idx, "seller_type invalid">>>>
    ELSE <<>>

\* lines 113-119, st = str(s.get("seller_type", ""))
TypeErrors(idx, st) ==
    IF upper(st) = <<>> THEN <<<<idx, "seller_type missing">>>>
    ELSE IF upper(st) \notin VALID_TYPES THEN <<<<idx, "seller_type invalid">>>>
    ELSE <<>>

\* s.get(key, "") of a text field
GetOrEmpty(v) == IF v = None THEN <<>> ELSE v

\* One iteration of the loop over the sellers for an object sl (lines
\* 103-167): its errors and warnings, seller_id being the trimmed id
validate_seller(idx, sl, seller_id, seen_ids) ==
    [errors |->
        (IF seller_id = <<>> THEN <<<<idx, "seller_id">>>>
         ELSE IF seller_id \in seen_ids THEN <<<<idx, "duplicate">>>>
         ELSE <<>>)
        \o TypeErrors(idx, GetOrEmpty(sl.seller_type))
        \o (IF sl.is_confidential # "absent" /\ ~IsZeroOne(sl.is_confidential)
            THEN <<<<idx, "is_confidential">>>> ELSE <<>>)
        \o (IF sl.is_passthrough # "absent" /\ ~IsZeroOne(sl.is_passthrough)
            THEN <<<<idx, "is_passthrough">>>> ELSE <<>>)
        \o (IF is_conf_val(sl.is_confidential) = 0
               /\ strip(GetOrEmpty(sl.name)) = <<>>
            THEN <<<<idx, "name">>>> ELSE <<>>)
        \o DomainErrors(idx, sl),
     warnings |-> DomainWarnings(idx, sl, strip(GetOrEmpty(sl.domain)))]

\* acc with the errors and warnings of r appended
Extend(acc, r) ==
    [errors |-> acc.errors \o r.errors, warnings |-> acc.warnings \o r.warnings]

\* "for idx, s in enumerate(sellers)" from index idx on
RECURSIVE ValidateLoop(_, _, _, _)
ValidateLoop(sellers, idx, seen_ids, acc) ==
    IF idx >= Len(sellers) THEN acc
    ELSE IF ~sellers[idx + 1].is_object
    THEN ValidateLoop(sellers, idx + 1, seen_ids,
             Extend(acc, [errors |-> <<<<idx, "not an object">>>>,
                          warnings |-> <<>>]))
    ELSE ValidateLoop(sellers, idx + 1,
             seen_ids \cup ({strip(GetOrEmpty(sellers[idx + 1].seller_id))}
                              \ {<<>>}),
             Extend(acc, validate_seller(idx, sellers[idx + 1],
                            strip(GetOrEmpty(sellers[idx + 1].seller_id)),
                            seen_ids)))

\* validate_sellers for an object: sellers = obj.get("sellers", [])
validate_sellers(obj, acc) ==
    IF obj.sellers_kind # "list" THEN acc
    ELSE ValidateLoop(obj.sellers, 0, {}, acc)

\* validate_sellers_json: obj.get raises AttributeError when the top level
\* is not an object, else the verdict is printed from the errors
validate_sellers_json ==
    /\ IF data.top # "object"
       THEN /\ errors' = validate_parent(data).errors
            /\ warnings' = validate_parent(data).warnings
            /\ verdict' = "AttributeError"
       ELSE /\ errors' = validate_sellers(data, validate_parent(data)).errors
            /\ warnings' = validate_sellers(data, validate_parent(data)).warnings
            /\ verdict' = IF errors' # <<>> THEN "INVALID" ELSE "VALID"
    /\ UNCHANGED data
    /\ UNCHANGED <<updateVars, rtVars, chkVars, sellersVars, mergeVars>>

\* {seller_id "1", name "A", seller_type "PUBLISHER", domain "a.com"}
ExampleSeller ==
    [is_object |-> TRUE, seller_id |-> <<"1">>, name |-> <<"A">>,
     seller_type |-> <<"P", "U", "B", "L", "I", "S", "H", "E", "R">>,
     domain |-> <<"a", ".", "c", "o", "m">>,
     is_confidential |-> "absent", is_passthrough |-> "absent"]

\* The example seller with one field changed
OneFieldChanged ==
    {[ExampleSeller EXCEPT !.seller_id = v] : v \in {None, <<>>, <<" ", "1">>, <<"2">>}}
    \cup {[ExampleSeller EXCEPT !.seller_type = v] :
             v \in {None, <<>>, <<"b", "o", "t", "h">>, <<"R", "E", "S", "E", "L", "L", "E", "R">>}}
    \cup {[ExampleSeller EXCEPT !.is_confidential = v] :
             v \in {"int0", "int1", "str1", "int2"}}
    \cup {[ExampleSeller EXCEPT !.is_passthrough = v] : v \in {"int1", "int2"}}
    \cup {[ExampleSeller EXCEPT !.name = v] : v \in {None, <<" ">>}}
    \cup {[ExampleSeller EXCEPT !.domain = v] :
             v \in {None, <<>>, <<" ">>, <<"a", " ", "b">>, <<"a", "/", "b">>,
                    kHttps \o <<"a">>}}

\* Sellers without name or without domain at the values of is_confidential
ConfidentialChanged ==
    {[ExampleSeller EXCEPT !.is_confidential = v, !.name = None] :
        v \in {"int1", "str1", "int2"}}
    \cup {[ExampleSeller EXCEPT !.is_confidential = v, !.domain = None] :
             v \in {"int1", "int2"}}

\* An element of the sellers list that is not an object
NotAnObject ==
    [is_object |-> FALSE, seller_id |-> None, name |-> None,
     seller_type |-> None, domain |-> None,
     is_confidential |-> "absent", is_passthrough |-> "absent"]

ValidateSellerPool ==
    {ExampleSeller, NotAnObject} \cup OneFieldChanged \cup ConfidentialChanged

\* The documents: a top level that is not an object, or an object with or
\* without its keys
ValidateDocs ==
    {[top |-> t, sellers_kind |-> "absent", sellers |-> <<>>,
      version_kind |-> "absent", version |-> <<>>] :
        t \in {"array", "string", "number"}}
    \cup
    {[top |-> "object", sellers_kind |-> sk.kind, sellers |-> sk.sellers,
      version_kind |-> v.kind, version |-> v.version] :
        sk \in {[kind |-> "absent", sellers |-> <<>>],
                [kind |-> "other", sellers |-> <<>>]}
               \cup {[kind |-> "list", sellers |-> q] :
                        q \in SeqsUpTo(ValidateSellerPool, MaxSellers)},
        v \in {[kind |-> "absent", version |-> <<>>],
               [kind |-> "other", version |-> <<>>],
               [kind |-> "str", version |-> <<"1", ".", "0">>],
               [kind |-> "str", version |-> <<"1", ".", "3">>]}}

ValidateStart ==
    /\ data \in ValidateDocs
    /\ errors = <<>>
    /\ warnings = <<>>
    /\ verdict = "none"

ValidateIdle ==
    /\ data = [top |-> "object", sellers_kind |-> "absent", sellers |-> <<>>,
               version_kind |-> "absent", version |-> <<>>]
    /\ errors = <<>>
    /\ warnings = <<>>
    /\ verdict = "idle"

NextRoundTrip == rt_normalize \/ rt_serialize \/ rt_reparse

(***************************************************************************)
(* The checker as a state machine: the master file is drawn at the start,  *)
(* every step is one iteration of the loop over the publishers, with the   *)
(* answers of the network drawn at the step.                               *)
(***************************************************************************)
NoPatch == << <<"no file">> >>

ChkIdle ==
    /\ chkMaster = <<>>
    /\ summary = [total_publishers |-> 0, ok |-> 0, missing |-> 0, errors |-> 0,
                  publishers |-> <<>>]
    /\ patches = [d \in Range(PublisherRows) |-> NoPatch]

\* "A, 1 ,DIRECT, X"  "b,1,RESELLER,y"  "a,1,direct" (malformed)
ChkLinePool == {lAx, lBy, lBad}

CheckerStart ==
    /\ chkMaster \in SeqsUpTo(ChkLinePool, MaxMasterLines)
    /\ summary = [total_publishers |-> Len(PublisherRows),
                  ok |-> 0, missing |-> 0, errors |-> 0, publishers |-> <<>>]
    /\ patches = [d \in Range(PublisherRows) |-> NoPatch]

\* The documents a publisher may serve; <<>> is the empty text.
Documents == SeqsUpTo(ChkLinePool, MaxDocLines)

(***************************************************************************)
(* app_ads_merge.py, and the patching of a publisher's document: a check   *)
(* of the document by app_ads_checker, merges of the suggested patch into  *)
(* it (--in and --out are the document), and a new check.                  *)
(***************************************************************************)
\* The entries of the lines that match ENTRY_RE (lines 18-23)
RECURSIVE EntriesOfLines(_)
EntriesOfLines(lines) ==
    IF lines = <<>> THEN {}
    ELSE LET m == ENTRY_RE(Head(lines))
         IN  (IF m # None THEN {EntryOf(m)} ELSE {})
                \cup EntriesOfLines(Tail(lines))

\* load_entries: the lines without their newline, and the set of entries
load_entries(file) == [lines |-> file, entries |-> EntriesOfLines(file)]

\* fmt of app_ads_merge
merge_fmt(e) ==
    e[1] \o kSep \o e[2] \o kSep \o e[3]
         \o (IF e[4] # <<>> THEN kSep \o e[4] ELSE <<>>)

\* to_add without the difference: every entry of the --add file
merge_to_add_all(add_set, orig_set) == sorted(add_set)

\* to_add = sorted(list(add_set - orig_set), key=...)
merge_to_add(add_set, orig_set) == sorted(add_set \ orig_set)

\* Lines without the blank lines at the end of the text
RECURSIVE DropBlankTail(_)
DropBlankTail(lines) ==
    IF lines # <<>> /\ RStrip(lines[Len(lines)]) = <<>>
    THEN DropBlankTail(SubSeq(lines, 1, Len(lines) - 1))
    ELSE lines

\* The lines of "\n".join(orig_lines).rstrip() + "\n": the whitespace at the
\* end of the text is removed; a text left empty is written as one newline.
JoinRStrip(orig_lines) ==
    LET kept == DropBlankTail(orig_lines)
    IN  IF kept = <<>> THEN << <<>> >>
        ELSE [kept EXCEPT ![Len(kept)] = RStrip(@)]

\* "# --- Added via tool ---"
kAddedMarker ==
    <<"#", " ", "-", "-", "-", " ", "A", "d", "d", "e", "d", " ", "v", "i",
      "a", " ", "t", "o", "o", "l", " ", "-", "-", "-">>

\* The lines written to --out (lines 42-47)
merge_write(orig_lines, added) ==
    JoinRStrip(orig_lines)
        \o (IF added # <<>>
            THEN << <<>>, kAddedMarker >>
                    \o [i \in DOMAIN added |-> merge_fmt(added[i])]
            ELSE <<>>)

\* main of app_ads_merge with --in and --out the publisher's document and
\* --add the patch file of the latest check
merge_main ==
    /\ mergePc \in {"checked", "merged"}
    /\ addfile # NoPatch
    /\ to_add' = merge_to_add(load_entries(addfile).entries,
                              load_entries(published).entries)
    /\ published' = merge_write(load_entries(published).lines, to_add')
    /\ mergeBefore' = published
    /\ mergePc' = IF mergePc = "checked" THEN "merged" ELSE "remerged"
    /\ UNCHANGED <<original, addfile, checks>>
    /\ UNCHANGED <<updateVars, rtVars, chkVars, sellersVars, validateVars>>

\* The iteration of the checker's loop for a publisher that serves doc over
\* https: the status, the missing list and the patch file it writes
CheckDocument(master, doc) ==
    LET f == fetch_app_ads_txt(PublisherRows[1], Fetched(doc), Untried)
        d == diff(Range(chk_load_master(master)), Range(parse_entries(f.content)))
    IN  IF NotContent(f)
        THEN [status |-> "ERROR_FETCHING", missing |-> <<>>, patch |-> NoPatch]
        ELSE [status |-> StatusOf(d.missing), missing |-> d.missing,
              patch |-> PatchLines(d.missing)]

\* A run of the checker on the published document; the patch file is
\* written unless the fetch is reported as failed
patch_check ==
    /\ mergePc \in {"start", "merged", "remerged"}
    /\ checks' = Append(checks, CheckDocument(chkMaster, published))
    /\ addfile' = IF checks'[Len(checks')].status = "ERROR_FETCHING"
                  THEN addfile ELSE checks'[Len(checks')].patch
    /\ mergePc' = IF mergePc = "start" THEN "checked" ELSE "rechecked"
    /\ UNCHANGED <<published, original, mergeBefore, to_add>>
    /\ UNCHANGED <<updateVars, rtVars, chkVars, sellersVars, validateVars>>

\* "# c", a comment line
lC == <<"#", " ", "c">>

\* The lines of a publisher's document: two records, a comment and the
\* blank line
MergeLinePool == {lAx, lBy, lC, <<>>}

MergeIdle ==
    /\ published = <<>>
    /\ original = <<>>
    /\ addfile = NoPatch
    /\ mergePc = "idle"
    /\ checks = <<>>
    /\ mergeBefore = <<>>
    /\ to_add = <<>>

PatchStart ==
    /\ chkMaster \in SeqsUpTo(ChkLinePool, MaxMasterLines)
    /\ summary = [total_publishers |-> 0, ok |-> 0, missing |-> 0, errors |-> 0,
                  publishers |-> <<>>]
    /\ patches = [d \in Range(PublisherRows) |-> NoPatch]
    /\ published \in SeqsUpTo(MergeLinePool, MaxPubLines)
    /\ original = published
    /\ addfile = NoPatch
    /\ mergePc = "start"
    /\ checks = <<>>
    /\ mergeBefore = <<>>
    /\ to_add = <<>>

NextChecker ==
    \/ \E doc \in Documents : check_publisher(Fetched(doc), Untried)
    \/ \E doc \in Documents : check_publisher(Failed, Fetched(doc))
    \/ check_publisher(Failed, Failed)

InitChecker ==
    CheckerStart /\ UpdateIdle /\ RtIdle /\ SellersIdle /\ ValidateIdle /\ MergeIdle

SpecChecker == InitChecker /\ [][NextChecker]_vars

InitRoundTrip ==
    RoundTripStart /\ UpdateIdle /\ ChkIdle /\ SellersIdle /\ ValidateIdle /\ MergeIdle

SpecRoundTrip == InitRoundTrip /\ [][NextRoundTrip]_vars

NextUpdate == update_main

InitUpdate ==
    UpdateStart /\ RtIdle /\ ChkIdle /\ SellersIdle /\ ValidateIdle /\ MergeIdle

SpecUpdate == InitUpdate /\ [][NextUpdate]_vars

NextSellers == sellers_append_main

InitSellers ==
    SellersStart /\ UpdateIdle /\ RtIdle /\ ChkIdle /\ ValidateIdle /\ MergeIdle

SpecSellers == InitSellers /\ [][NextSellers]_vars

(***************************************************************************)
(* The registry over its history: appends with one candidate after another *)
(***************************************************************************)
NextRegistry == sellers_append_main \/ generate_candidate

InitRegistry ==
    RegistryStart /\ UpdateIdle /\ RtIdle /\ ChkIdle /\ ValidateIdle /\ MergeIdle

SpecRegistry == InitRegistry /\ [][NextRegistry]_vars

(***************************************************************************)
(* The validator: one run on a document                                    *)
(***************************************************************************)
NextValidate == validate_sellers_json

InitValidate ==
    ValidateStart /\ UpdateIdle /\ RtIdle /\ ChkIdle /\ SellersIdle /\ MergeIdle

SpecValidate == InitValidate /\ [][NextValidate]_vars

(***************************************************************************)
(* Patching a publisher's document: check, merge, merge again or check     *)
(***************************************************************************)
NextPatch == patch_check \/ merge_main

InitPatch ==
    PatchStart /\ UpdateIdle /\ RtIdle /\ SellersIdle /\ ValidateIdle

SpecPatch == InitPatch /\ [][NextPatch]_vars

(***************************************************************************)
(* Claims about the master update.                                         *)
(***************************************************************************)
\* The valid records of a file: the lines that are neither blank nor a
\* comment and match the record grammar, normalized.
ValidRecords(file) ==
    {EntryOf(ENTRY_RE(file[i])) :
        i \in {n \in DOMAIN file : ~LINE_RE(file[n]) /\ ENTRY_RE(file[n]) # None}}

\* The malformed lines of a file
MalformedLines(file) ==
    {file[i] : i \in {n \in DOMAIN file : ~LINE_RE(file[n]) /\ ENTRY_RE(file[n]) = None}}

PartnerRecords == UNION {ValidRecords(partners[f]) : f \in Range(partner_files)}

StrictlySorted(seq) ==
    \A i \in DOMAIN seq : \A j \in DOMAIN seq : i < j => TupleLess(seq[i], seq[j])

\* C1: when the master written by a non-dry run is read back and merged again
\* with the same partner files, the later run reports added = empty and its
\* merged set is the first run's (and is what the master file holds).
C1_MergeIdempotent ==
    lastWritten.written
        => /\ report.added = <<>>
           /\ report.newly_added = 0
           /\ report.merged = lastWritten.merged
           /\ masterFile = write_master(lastWritten.merged)

\* A non-dry run on the master an earlier non-dry run wrote, with partner
\* records in both the written master and the partner files.
C1_Witness ==
    /\ lastWritten.written /\ ~report.dry_run
    /\ Len(lastWritten.merged) >= 2
    /\ report.duplicates # <<>>
    /\ report.master_count_before = Len(lastWritten.merged)

\* C2: merged is the union of the master records and the valid records of
\* every partner file, without duplicates and in natural order; added is
\* merged minus master; every master record is in merged; a record flagged as
\* a conflict is in merged as well.
C2_MergedIsUnion ==
    report.ran =>
        LET M == ValidRecords(masterRead)
            NotInM(e) == e \notin M
            addedRecs == SelectSeq(report.merged, NotInM)
        IN  /\ Range(report.merged) = M \cup PartnerRecords
            /\ StrictlySorted(report.merged)
            /\ report.added = [i \in DOMAIN addedRecs |-> fmt(addedRecs[i])]
            /\ M \subseteq Range(report.merged)
            /\ \A i \in DOMAIN report.conflicts :
                 \E e \in Range(report.merged) :
                    fmt(e) = report.conflicts[i][2]

\* A run that merged records of both partner files into a non-empty master
\* and flagged a conflict.
C2_Witness ==
    /\ report.ran
    /\ report.master_count_before > 0
    /\ report.newly_added >= 2
    /\ report.conflicts # <<>>
    /\ ValidRecords(partners[partner_files[1]]) # {}
    /\ ValidRecords(partners[partner_files[2]]) # {}

\* The valid records of a file in the order of their lines
EntrySeq(file) ==
    LET Ok(l) == ~LINE_RE(l) /\ ENTRY_RE(l) # None
        sel == SelectSeq(file, Ok)
    IN  [i \in DOMAIN sel |-> EntryOf(ENTRY_RE(sel[i]))]

\* The partner records in the order the update reads them, each with its file
PartnerSeq ==
    LET E1 == EntrySeq(partners[partner_files[1]])
        E2 == EntrySeq(partners[partner_files[2]])
    IN  [i \in 1..(Len(E1) + Len(E2)) |->
            IF i <= Len(E1) THEN <<partner_files[1], E1[i]>>
            ELSE <<partner_files[2], E2[i - Len(E1)]>>]

\* C3: a partner record raises a conflict exactly when its certification id is
\* non-empty, not yet known for its key, and the key has a known non-empty id
\* (of the master or of an earlier partner record); ids x then y of one key
\* with no prior id give exactly one conflict, on the second.
C3_ConflictExactlyWhen ==
    report.ran =>
        LET P == PartnerSeq
            M == ValidRecords(masterRead)
            \* the non-empty ids known for the key of the n-th partner record
            \* when it is read
            KnownIds(n) ==
                ({e[4] : e \in {x \in M : KeyOf(x) = KeyOf(P[n][2])}}
                  \cup {P[m][2][4] :
                          m \in {x \in 1..(n - 1) : KeyOf(P[x][2]) = KeyOf(P[n][2])}})
                \ {<<>>}
            RaisesConflict(n) ==
                /\ P[n][2][4] # <<>>
                /\ P[n][2][4] \notin KnownIds(n)
                /\ KnownIds(n) # {}
            idx == SelectSeq([i \in DOMAIN P |-> i], RaisesConflict)
        IN  /\ [i \in DOMAIN report.conflicts |->
                   <<report.conflicts[i][1], report.conflicts[i][2]>>]
               = [i \in DOMAIN idx |-> <<P[idx[i]][1], fmt(P[idx[i]][2])>>]
            /\ (/\ M = {}
                /\ partners[partner_files[1]] = <<lAx, lAy>>
                /\ partners[partner_files[2]] = <<>>)
               => report.conflicts
                    = << <<partner_files[1], fmt(EntryOf(ENTRY_RE(lAy))),
                           << <<"x">> >> >> >>

\* The run of the example: ids x then y of one key, no prior id.
C3_Witness ==
    /\ report.ran
    /\ ValidRecords(masterRead) = {}
    /\ partners[partner_files[1]] = <<lAx, lAy>>
    /\ partners[partner_files[2]] = <<>>
    /\ Len(report.conflicts) = 1

\* C4: every malformed line the update reads, of the master file or of a
\* partner file, is in the report's invalid lines under its source.
C4_EveryMalformedLineReported ==
    report.ran =>
        /\ \A f \in Range(partner_files) :
             \A l \in MalformedLines(partners[f]) :
                <<f, strip(l)>> \in Range(report.invalid_lines)
        /\ \A l \in MalformedLines(masterRead) :
             \E x \in Range(report.invalid_lines) :
                x[2] = strip(l) /\ x[1] \notin Range(partner_files)

\* The malformed lines of the partner files are reported (the part of C4 the
\* code keeps).
C4_PartnerLinesReported ==
    report.ran =>
        \A f \in Range(partner_files) :
           \A l \in MalformedLines(partners[f]) :
              <<f, strip(l)>> \in Range(report.invalid_lines)

(***************************************************************************)
(* Claims about the record grammar and the serialization.                  *)
(***************************************************************************)
CountOf(c, s) == Cardinality({i \in DOMAIN s : s[i] = c})

\* C5: for every line the grammar accepts, the serialized record parses back
\* to a record equal in all four fields, with the update's parser and with the
\* checker's; the serialization has a fourth field only when the
\* certification id is non-empty.
C5_RoundTrip ==
    rtPc = "reparsed" =>
        LET e == rtRec.update[1][1]
        IN  /\ rtRec.checker = <<e>>
            /\ rtBack.update = << <<e>>, <<>> >>
            /\ rtBack.checker = <<e>>
            /\ rtText.update = rtText.checker
            /\ CountOf(",", rtText.update) = (IF e[4] # <<>> THEN 3 ELSE 2)
            /\ rtText.update[Len(rtText.update)] \notin {",", " "}

\* A line with upper-case letters and white space around its fields, and a
\* certification id, went through the round trip.
C5_Witness ==
    /\ rtPc = "reparsed"
    /\ rtLine # rtText.update
    /\ rtRec.update[1][1][4] # <<>>
    /\ lower(rtLine) # rtLine
    /\ Head(rtLine) = " "

\* The entries reported for the publishers whose document was compared
Compared ==
    {summary.publishers[i] :
        i \in {n \in DOMAIN summary.publishers :
                  summary.publishers[n].status # "ERROR_FETCHING"}}

\* C6: for the master's records A and the records B of a compared document,
\* missing holds exactly the elements of A not in B and extra exactly those of
\* B not in A, each strictly increasing in the natural order (so without
\* duplicates); when A = B both are empty.
C6_DiffIsSetDifference ==
    \A p \in Compared :
        LET A == ValidRecords(chkMaster)
            B == Range(p.current)
        IN  /\ Range(p.missing) = A \ B
            /\ Range(p.extra) = B \ A
            /\ \A e \in Range(p.missing) : e \in A /\ e \notin B
            /\ \A e \in Range(p.extra) : e \in B /\ e \notin A
            /\ StrictlySorted(p.missing)
            /\ StrictlySorted(p.extra)
            /\ (A = B => p.missing = <<>> /\ p.extra = <<>>)

\* One publisher with records missing and records extra, another whose
\* document holds exactly the master's records
C6_Witness ==
    /\ Len(summary.publishers) = 2
    /\ summary.publishers[1].missing # <<>>
    /\ summary.publishers[1].extra # <<>>
    /\ summary.publishers[2].status # "ERROR_FETCHING"
    /\ summary.publishers[2].current # <<>>
    /\ Range(summary.publishers[2].current) = ValidRecords(chkMaster)

\* C7: a compared publisher is OK exactly when no master record is absent
\* from its document, and MISSING otherwise; the extra records are listed in
\* the report and do not change the status.
C7_OkIffNothingMissing ==
    \A p \in Compared :
        /\ p.status \in {"OK", "MISSING"}
        /\ p.status = "OK" <=> p.missing = <<>>
        /\ p.status = "OK" <=> ValidRecords(chkMaster) \subseteq Range(p.current)
        /\ Len(p.extra_lines) = Len(p.extra)
        /\ \A i \in DOMAIN p.extra : p.extra_lines[i] = fmt(p.extra[i])

\* A publisher in sync with extra records listed, beside one with records
\* missing
C7_Witness ==
    /\ \E p \in Compared :
          p.status = "OK" /\ p.extra_lines # <<>> /\ ValidRecords(chkMaster) # {}
    /\ \E p \in Compared : p.status = "MISSING"

\* C8: a publisher is reported with the error status exactly when its fetch
\* failed (no URL answered), with empty missing and extra lists; a fetched
\* document, the empty one included, is classified from its content, and with
\* a non-empty master and no valid record it is MISSING the whole master.
\* Every row is reported whatever happened to the rows before it.
C8_ErrorIffFetchFailed ==
    \A i \in DOMAIN summary.publishers :
        LET p == summary.publishers[i]
        IN  /\ p.domain = PublisherRows[i]
            /\ p.status = "ERROR_FETCHING" <=> p.url = None
            /\ p.status = "ERROR_FETCHING"
                  => p.missing_lines = <<>> /\ p.extra_lines = <<>>
            /\ (p.url # None /\ p.current = <<>> /\ ValidRecords(chkMaster) # {})
                  => /\ p.status = "MISSING"
                     /\ Range(p.missing) = ValidRecords(chkMaster)

\* C8, the part the checker satisfies: a failed fetch is reported as an error
\* with no record data, an error entry carries no record data, and every row
\* is reported in order after a failure of an earlier one.
C8_FailedFetchIsError ==
    \A i \in DOMAIN summary.publishers :
        LET p == summary.publishers[i]
        IN  /\ p.domain = PublisherRows[i]
            /\ p.url = None => p.status = "ERROR_FETCHING"
            /\ p.status = "ERROR_FETCHING"
                  => p.missing_lines = <<>> /\ p.extra_lines = <<>>

\* The empty document, fetched, is reported as a fetch error
C8_EmptyDocumentIsError ==
    \E i \in DOMAIN summary.publishers :
        /\ summary.publishers[i].url # None
        /\ summary.publishers[i].status = "ERROR_FETCHING"

\* The seller_id of a seller as the append compares it
TrimmedId(sl) == strip(sl.seller_id)

\* C9 as amended: the output sellers are the base sellers, unchanged and in
\* order, followed by one entry for every distinct non-empty trimmed
\* seller_id of the candidate that no base seller has (trimmed), in the order
\* of the first occurrence in the candidate, the entry being the candidate's
\* last one with that id; candidate entries without seller_id or with an
\* empty one are not appended, and a base seller is untouched when the
\* candidate redefines its seller_id.
C9_AppendOnlyByTrimmedId ==
    sellers_appended.ran =>
        LET B == baseBefore.sellers
            C == cand.sellers
            BaseKeys == {TrimmedId(B[i]) : i \in {n \in DOMAIN B : B[n].has_id}}
            Same(i, j) == C[j].has_id /\ TrimmedId(C[j]) = TrimmedId(C[i])
            First(i) == /\ C[i].has_id
                        /\ TrimmedId(C[i]) # <<>>
                        /\ TrimmedId(C[i]) \notin BaseKeys
                        /\ \A j \in 1..(i - 1) : ~Same(i, j)
            idx == SelectSeq([i \in DOMAIN C |-> i], First)
            Last(i) == C[CHOOSE j \in DOMAIN C :
                            Same(i, j) /\ \A k \in (j + 1)..Len(C) : ~Same(i, k)]
        IN  /\ SubSeq(base.sellers, 1, Len(B)) = B
            /\ base.sellers = B \o [k \in DOMAIN idx |-> Last(idx[k])]
            /\ sellers_appended.appended_ids =
                   [k \in DOMAIN idx |-> TrimmedId(C[idx[k]])]
            /\ sellers_appended.appended_count = Len(idx)

\* A run that appends a seller to a non-empty base whose seller the candidate
\* redefines
C9_Witness ==
    /\ sellers_appended.ran
    /\ sellers_appended.appended_count > 0
    /\ \E i \in DOMAIN baseBefore.sellers : \E j \in DOMAIN cand.sellers :
          /\ baseBefore.sellers[i].has_id /\ cand.sellers[j].has_id
          /\ baseBefore.sellers[i].seller_id = cand.sellers[j].seller_id
          /\ baseBefore.sellers[i].name # cand.sellers[j].name

\* C9 as stated, for a base and a candidate with unique non-empty seller_ids:
\* the output is the base followed by exactly the candidate sellers whose
\* seller_id no base seller has, in the candidate's order.
C9_AppendsExactlyAbsent ==
    (sellers_appended.ran /\ UniqueIds(baseBefore.sellers) /\ UniqueIds(cand.sellers)) =>
        LET B == baseBefore.sellers
            Absent(sl) == \A i \in DOMAIN B : B[i].seller_id # sl.seller_id
        IN  base.sellers = B \o SelectSeq(cand.sellers, Absent)

\* What bump_minor is to return for the versions of VersionPool
ExpectedBump ==
    [v \in VersionPool |->
        CASE v = <<"1", ".", "3">> -> <<"1", ".", "4">>
          [] v = <<"1", ".", "9">> -> <<"1", ".", "1", "0">>
          [] v = <<"1", ".", "3", ".", "7">> -> <<"1", ".", "4">>
          [] v = <<"0", "1", ".", "0", "9">> -> <<"1", ".", "1", "0">>
          [] v = <<"1", ".", "-", "2">> -> <<"1", ".", "-", "1">>
          [] OTHER -> v]

\* C10: for a base with a version string, when a seller is appended and the
\* first two dot-separated components are integers the output version is
\* MAJOR.(MINOR+1), whatever the number of sellers appended and without the
\* further components; when it cannot be parsed that way it is unchanged and
\* the run does not fail; when no seller is appended it is unchanged.
C10_VersionBump ==
    (sellers_appended.ran /\ baseBefore.has_version) =>
        LET v == baseBefore.version
            parts == SplitDot(v)
            parsable == Len(parts) >= 2 /\ ParseInt(parts[1]).ok
                                       /\ ParseInt(parts[2]).ok
            n == sellers_appended.appended_count
        IN  /\ appendError = "none"
            /\ base.has_version
            /\ sellers_appended.version_before = v
            /\ sellers_appended.version_after = base.version
            /\ n = 0 => base.version = v
            /\ (n > 0 /\ parsable) =>
                   base.version = IntToStr(ParseInt(parts[1]).value) \o <<".">>
                                  \o IntToStr(ParseInt(parts[2]).value + 1)
            /\ (n > 0 /\ ~parsable) => base.version = v
            /\ n > 0 => base.version = ExpectedBump[v]

\* Two sellers appended to a base at version 1.3.7, which becomes 1.4
C10_Witness ==
    /\ sellers_appended.ran
    /\ sellers_appended.appended_count = 2
    /\ baseBefore.has_version
    /\ baseBefore.version = <<"1", ".", "3", ".", "7">>
    /\ base.version = <<"1", ".", "4">>

\* The integer pair (MAJOR, MINOR) of a version
VersionPair(version_str) ==
    <<ParseInt(SplitDot(version_str)[1]).value,
      ParseInt(SplitDot(version_str)[2]).value>>

PairLeq(a, b) == a[1] < b[1] \/ (a[1] = b[1] /\ a[2] <= b[2])

\* C11: in every history of appends from a registry with unique seller_ids
\* and a MAJOR.MINOR version, the seller_ids of the registry are pairwise
\* distinct, the version is a MAJOR.MINOR version, and a run never takes the
\* pair (MAJOR, MINOR) below what it was before the run.
C11_RegistryInvariants ==
    /\ UniqueIds(base.sellers)
    /\ IsMajorMinor(base.version)
    /\ PairLeq(VersionPair(baseBefore.version), VersionPair(base.version))
    /\ sellers_appended.ran =>
          VersionPair(base.version) =
             <<VersionPair(baseBefore.version)[1],
               VersionPair(baseBefore.version)[2]
                  + (IF sellers_appended.appended_count > 0 THEN 1 ELSE 0)>>

\* A registry that grew by two runs with different candidates
C11_Witness ==
    /\ sellers_appended.ran
    /\ sellers_appended.appended_count > 0
    /\ Len(base.sellers) >= Len(cand.sellers) + 2
    /\ Len(baseBefore.sellers) < Len(base.sellers)

\* C16: once the append has run with a candidate, running it again on its
\* output with the same candidate appends no seller and leaves the sellers
\* and the version as they are.
C16_AppendIdempotent ==
    [][sellers_appended.ran =>
          /\ sellers_appended'.appended_ids = <<>>
          /\ sellers_appended'.appended_count = 0
          /\ base' = base
          /\ sellers_appended'.version_after = sellers_appended.version_after]_vars

\* A second run on the output of a run that appended sellers
C16_Witness ==
    /\ sellers_appended.ran
    /\ sellers_appended.appended_count = 0
    /\ baseBefore = base
    /\ Len(base.sellers) > MaxBase

\* The run ended with a verdict
Judged == verdict \in {"VALID", "INVALID"}

\* An error (a warning) is recorded for index i
ErrorAt(i) == \E k \in DOMAIN errors : errors[k][1] = i

WarningsAt(i) == {k \in DOMAIN warnings : warnings[k][1] = i}

\* The sellers of the document that are objects, by their index from 0
SellerObjects ==
    {i \in 0..(Len(data.sellers) - 1) : data.sellers[i + 1].is_object}

SellerAt(i) == data.sellers[i + 1]

Missing(v) == v = None

\* The seller is non-confidential: is_confidential absent or 0
NonConfidential(sl) == sl.is_confidential \in {"absent", "int0"}

ExampleRegistry ==
    [top |-> "object", sellers_kind |-> "list", sellers |-> <<ExampleSeller>>,
     version_kind |-> "str", version |-> <<"1", ".", "0">>]

OnlyVersionOrDomainIrregular ==
    /\ data.top = "object"
    /\ data.sellers_kind = "list"
    /\ data.version_kind = "str"
    /\ \A i \in DOMAIN data.sellers :
          data.sellers[i] = [ExampleSeller EXCEPT !.domain = data.sellers[i].domain]

\* C13: a document whose only irregularities concern the version value or
\* the domain of a seller (absent, or present with any content) is VALID, its
\* irregularities being warnings; the example registry without its domain is
\* VALID with exactly one warning.
C13_WarningsNeverInvalidate ==
    Judged =>
        /\ (OnlyVersionOrDomainIrregular /\ Len(data.sellers) <= 1)
              => verdict = "VALID" /\ errors = <<>>
        /\ data = [ExampleRegistry EXCEPT
                      !.sellers = <<[ExampleSeller EXCEPT !.domain = None]>>]
              => verdict = "VALID" /\ Len(warnings) = 1

\* C13, the part the validator satisfies: with every present domain
\* non-empty once trimmed, such a document is VALID.
C13_NonEmptyDomainWarnsOnly ==
    Judged =>
        /\ (/\ OnlyVersionOrDomainIrregular /\ Len(data.sellers) <= 1
            /\ \A i \in DOMAIN data.sellers :
                  data.sellers[i].domain # None
                     => strip(data.sellers[i].domain) # <<>>)
              => verdict = "VALID" /\ errors = <<>>
        /\ data = [ExampleRegistry EXCEPT
                      !.sellers = <<[ExampleSeller EXCEPT !.domain = None]>>]
              => verdict = "VALID" /\ Len(warnings) = 1

\* C15: every run ends with the verdict VALID or INVALID, and a document
\* whose top level is not an object is INVALID with the error that the top
\* level must be an object.
C15_AlwaysAVerdict ==
    verdict # "none" =>
        /\ Judged
        /\ data.top # "object"
              => verdict = "INVALID" /\ errors = <<<<Top, "not an object">>>>

\* C15, the part the validator satisfies: the error is recorded, and every
\* object gets a verdict.
C15_ObjectsGetAVerdict ==
    verdict # "none" =>
        /\ data.top = "object" => Judged
        /\ data.top # "object" => errors = <<<<Top, "not an object">>>>

\* The non-empty certification ids of the records of a key in a set
IdsOf(k, records) == {e[4] : e \in {x \in records : KeyOf(x) = k}} \ {<<>>}

\* C14: the existing-id list of every reported conflict holds no empty id,
\* and holds the non-empty ids known for the key when the record was read.
C14_ExistingIdsNonEmpty ==
    report.ran =>
        \A i \in DOMAIN report.conflicts :
            LET k == KeyOf(EntryOf(ENTRY_RE(report.conflicts[i][2])))
                existing == Range(report.conflicts[i][3])
            IN  /\ <<>> \notin existing
                /\ existing # {}
                /\ existing \subseteq
                      IdsOf(k, ValidRecords(masterRead) \cup PartnerRecords)

\* C14, the part the update satisfies: every conflict carries ids known for
\* its key, at least one of them non-empty.
C14_ExistingIdsKnown ==
    report.ran =>
        \A i \in DOMAIN report.conflicts :
            LET k == KeyOf(EntryOf(ENTRY_RE(report.conflicts[i][2])))
                existing == Range(report.conflicts[i][3])
            IN  /\ existing \ {<<>>} # {}
                /\ existing \ {<<>>} \subseteq
                      IdsOf(k, ValidRecords(masterRead) \cup PartnerRecords)

\* C18: in every report master_count_after is master_count_before plus
\* newly_added, and newly_added is the number of records in added.
C18_CountsConsistent ==
    report.ran =>
        /\ report.newly_added = Len(report.added)
        /\ report.master_count_after
              = report.master_count_before + report.newly_added

\* C18, the part the update satisfies: the counts are consistent with the
\* number of distinct records of the master.
C18_CountsOfDistinctRecords ==
    report.ran =>
        /\ report.newly_added = Len(report.added)
        /\ report.master_count_after
              = Cardinality(ValidRecords(masterRead)) + report.newly_added
        /\ report.master_count_before = Len(EntrySeq(masterRead))

Max(a, b) == IF a >= b THEN a ELSE b

\* C19: for every key, with S the non-empty ids of its master records and P
\* those of its partner records, the number of conflicts reported for the
\* key is |P minus S| when S is non-empty and max(0, |P| - 1) when S is
\* empty, whatever the order and the repetition of the partner lines.
C19_ConflictCountBySets ==
    report.ran =>
        \A k \in {KeyOf(e) : e \in ValidRecords(masterRead) \cup PartnerRecords} :
            LET S == IdsOf(k, ValidRecords(masterRead))
                P == IdsOf(k, PartnerRecords)
                n == Cardinality(
                        {i \in DOMAIN report.conflicts :
                            KeyOf(EntryOf(ENTRY_RE(report.conflicts[i][2]))) = k})
            IN  n = IF S # {} THEN Cardinality(P \ S)
                    ELSE Max(0, Cardinality(P) - 1)

\* Ids x, y and x again of one key with no master id: one conflict
C19_Witness ==
    /\ report.ran
    /\ ValidRecords(masterRead) = {}
    /\ partners[partner_files[1]] = <<lAx, lAy>>
    /\ partners[partner_files[2]] = <<lAx>>
    /\ Len(report.conflicts) = 1

(***************************************************************************)
(* Claims about patching a publisher's document.                           *)
(***************************************************************************)
IsPrefix(s, t) == Len(s) <= Len(t) /\ SubSeq(t, 1, Len(s)) = s

\* The document was MISSING at its first check and the patch was merged
PatchedMissing ==
    /\ mergePc \in {"merged", "remerged", "rechecked"}
    /\ checks[1].status = "MISSING"

\* What follows a merge of the patch of a MISSING document, but for the
\* lines kept
ConvergesAfterMerge ==
    /\ PatchedMissing =>
          Range(chk_load_master(chkMaster)) \subseteq Range(parse_entries(published))
    /\ PatchedMissing /\ mergePc = "rechecked" =>
          checks[2].status = "OK" /\ checks[2].missing = <<>>
    /\ PatchedMissing /\ mergePc = "remerged" =>
          to_add = <<>> /\ published = mergeBefore

=============================================================================
